---- MODULE Spec2Model ----
(***************************************************************************)
(* The verification gateway of zeoverify-3.0/backend/routes/verify.js:     *)
(* POST /api/verify (upload -> classifier -> ledger -> history record),    *)
(* GET /api/verify/history and GET /api/verify/history/:id, over the       *)
(* module-level array verificationHistory.  Node runs the handlers on one  *)
(* event loop, so the code between two awaits of a handler is one atomic   *)
(* step; the steps of different requests interleave at the awaits.         *)
(* The module also holds the older controller entry point                  *)
(* (controllers/verifyController.js) and the browser client's upload page  *)
(* (UploadPage.jsx, services/api.js, VerificationContext.jsx); each has a   *)
(* specification of its own over its part of the state.                    *)
(***************************************************************************)
EXTENDS Integers, Sequences, FiniteSets, TLC

\* ---------------------------------------------------------------- bounds
\* Number of POST /api/verify requests the model lets arrive.
MaxReq == 2
\* Largest value Date.now() takes in the model (milliseconds, starting at 1).
MaxClock == 2
\* Longest :id path parameter the model sends to GET /history/:id.
MaxParamLen == 2

\* ------------------------------------------------------ JavaScript values
Undefined == [t |-> "undefined"]
Null == [t |-> "null"]
Str(s) == [t |-> "string", v |-> s]
Arr(a) == [t |-> "array", v |-> a]
Num(n) == [t |-> "number", v |-> n]
Obj(o) == [t |-> "object", v |-> o]

\* ToBoolean: undefined, null, "" and 0 are falsy, arrays and objects truthy.
Truthy(x) ==
    CASE x.t = "undefined" -> FALSE
      [] x.t = "null" -> FALSE
      [] x.t = "string" -> x.v # ""
      [] x.t = "number" -> x.v # 0
      [] OTHER -> TRUE

\* a || b
JsOr(a, b) == IF Truthy(a) THEN a ELSE b

\* Property read data.key as the destructuring of line 30 does it: a key the
\* object lacks, or any of these keys on a string primitive, is undefined.
Field(data, key) ==
    IF data.t = "object" /\ key \in DOMAIN data.v THEN data.v[key] ELSE Undefined

\* Destructuring null or undefined throws a TypeError.
Destructurable(data) == data.t \notin {"undefined", "null"}

\* ------------------------------------------------------------ the uploads
\* req.file as multer's memory storage leaves it: undefined without a file
\* part, otherwise the bytes and the declared name.
Uploads ==
    { [buffer |-> << >>, originalname |-> "a.pdf"],
      [buffer |-> <<1>>, originalname |-> "a.pdf"],
      [buffer |-> <<1>>, originalname |-> "b.pdf"] }
NoUpload == [buffer |-> << >>, originalname |-> ""]

\* ethers.keccak256(file.buffer): a digest of the bytes alone, distinct on
\* distinct buffers of the corpus.  The digest is kept as a number.
RECURSIVE keccak256(_)
keccak256(buf) ==
    IF buf = << >> THEN 0
    ELSE keccak256(SubSeq(buf, 1, Len(buf) - 1)) * 257 + buf[Len(buf)] + 1

\* ---------------------------------------------------- the classifier call
\* Bodies the engine answers with (status 2xx, parsed by axios).
AiLow ==
    Obj([extracted_text |-> Str("deed text"), fraud_issues |-> Arr(<< >>),
         fraud_risk |-> Str("Low"), doc_type_ml |-> Str("real_estate"),
         doc_type_rule |-> Str("deed")])
AiMedium ==
    Obj([extracted_text |-> Str("deed text"), fraud_issues |-> Arr(<<"no seal">>),
         fraud_risk |-> Str("Medium"), doc_type_ml |-> Undefined,
         doc_type_rule |-> Str("deed")])
AiHigh ==
    Obj([extracted_text |-> Str(""), fraud_issues |-> Arr(<<"no seal">>),
         fraud_risk |-> Str("High"), doc_type_ml |-> Str("fake"),
         doc_type_rule |-> Str("deed")])
\* The shape ai-engine/README.md documents: lower-case risk, other key names.
AiReadme ==
    Obj([extracted_text |-> Str("deed text"), fraud_risk |-> Str("low")])

\* What `await axios.post(...)` yields.  axios rejects on a connection error
\* and on a non-2xx status (one rejection stands for both: the handler treats
\* every rejection alike); a 2xx body that is not JSON is NOT an error
\* (axios' transformResponse swallows the parse error and hands the raw
\* string on as response.data); the JSON body `null` parses to null.
AxiosOutcomes ==
    { [settled |-> "rejected", message |-> "connect ECONNREFUSED 127.0.0.1:5001"],
      [settled |-> "fulfilled", data |-> Str("<html>Bad Gateway</html>")],
      [settled |-> "fulfilled", data |-> Null],
      [settled |-> "fulfilled", data |-> AiLow],
      [settled |-> "fulfilled", data |-> AiMedium],
      [settled |-> "fulfilled", data |-> AiHigh],
      [settled |-> "fulfilled", data |-> AiReadme] }
NoOutcome == [settled |-> "pending"]

\* ------------------------------------------------------------ the ledger
DefaultPrivateKey == "0xac09"
\* process.env.PRIVATE_KEY: unset, or a value that is no 32-byte hex key.
\* (RPC_URL and CONTRACT_ADDRESS are only used once the contract is called:
\* a bad value makes contract.verifyDocument reject.)
EnvPrivateKeys == {Undefined, Str("changeme")}
\* new ethers.Wallet(key, provider) throws unless key is a private key.
IsPrivateKey(k) == k.t = "string" /\ k.v \in {DefaultPrivateKey}

\* --------------------------------------------------- path parameters
\* A path parameter is a string, kept as the sequence of its characters.
Digits == <<"0", "1", "2", "3", "4", "5", "6", "7", "8", "9">>
IsDigit(c) == \E d \in 1..10 : Digits[d] = c
DigitValue(c) == (CHOOSE d \in 1..10 : Digits[d] = c) - 1

NaN == [t |-> "number", nan |-> TRUE]

\* The value of the longest prefix of s made of decimal digits, continuing
\* from acc; seen tells whether a digit was read.
RECURSIVE parseDigits(_, _, _)
parseDigits(s, acc, seen) ==
    IF s # << >> /\ IsDigit(Head(s))
    THEN parseDigits(Tail(s), acc * 10 + DigitValue(Head(s)), TRUE)
    ELSE IF seen THEN Num(acc) ELSE NaN

RECURSIVE skipSpaces(_)
skipSpaces(s) == IF s # << >> /\ Head(s) = " " THEN skipSpaces(Tail(s)) ELSE s

\* parseInt(string): leading blanks are skipped, then an optional sign, then
\* the longest run of decimal digits is read and the rest of the string is
\* ignored; NaN when there is no digit.  (The 0x prefix is outside the
\* alphabet used here.)
parseInt(str) ==
    LET s == skipSpaces(str)
    IN  IF s # << >> /\ Head(s) = "-"
        THEN LET n == parseDigits(Tail(s), 0, FALSE)
             IN  IF n = NaN THEN NaN ELSE Num(0 - n.v)
        ELSE IF s # << >> /\ Head(s) = "+" THEN parseDigits(Tail(s), 0, FALSE)
        ELSE parseDigits(s, 0, FALSE)

\* String(n) for a non-negative integer: its decimal digits.
RECURSIVE toString(_)
toString(n) ==
    IF n < 10 THEN <<Digits[n + 1]>>
    ELSE toString(n \div 10) \o <<Digits[(n % 10) + 1]>>

\* The :id values requested: every string of the alphabet up to MaxParamLen
\* characters, and the decimal form of every id the clock can produce.
ParamChars == {"1", "a"}
ParamsOfLen(n) == [1..n -> ParamChars]
Params ==
    UNION {ParamsOfLen(n) : n \in 1..MaxParamLen} \cup {toString(t) : t \in 1..MaxClock}

\* ---------------------------------------------------------------- state
VARIABLES
    env,                  \* process.env.PRIVATE_KEY
    clock,                \* what Date.now() returns
    verificationHistory,  \* the module-level array, index 1 = element 0
    verifiedDocs,         \* ZeoDocumentVerifier.verifiedDocs, as the set of true keys
    req,                  \* the POST requests: position, locals and response; arrived
                          \* and appended are history fields (the value of appends
                          \* when the request arrived, and after its own unshift)
    get,                  \* the response a GET handler sent in the step just taken
                          \* (NoGet after a step of any other kind)
    histOwner,            \* history variable: for each element of verificationHistory, the request whose handler put it there
    appends,              \* history variable: how many times a handler has called unshift
    ctl,                  \* the requests of verifyController.verifyDocument: position, locals and response
    port5000,             \* what listens on http://localhost:5000, the client's API_BASE_URL
    ui,                   \* UploadPage's state: file, result, loading, backendStatus, and the last alert shown
    http,                 \* the client's requests in flight (health check, uploads, history
                          \* calls with the answer on its way), the answer a continuation
                          \* consumed in the step just taken, and two history fields: the
                          \* number of the router's requests that belong to uploads already
                          \* settled, and the entries addVerificationToHistory has made
    ctx                   \* VerificationProvider's state: verificationHistory, loading

gatewayVars == <<env, clock, verificationHistory, verifiedDocs, req, get, histOwner, appends>>
controllerVars == <<ctl>>
clientVars == <<port5000, ui, http, ctx>>
vars == <<gatewayVars, controllerVars, clientVars>>

Requests == 1..MaxReq

NewRequest ==
    [pc |-> "new", file |-> NoUpload, hasFile |-> FALSE, ai |-> NoOutcome,
     fileHash |-> -1, ledger |-> "none", status |-> 0, body |-> Undefined,
     arrived |-> 0, appended |-> 0]

NoGet == [route |-> "none"]

\* A request of the controller before it arrives.
NewCtlRequest ==
    [pc |-> "new", file |-> NoUpload, hasFile |-> FALSE, ai |-> NoOutcome,
     store |-> NoOutcome, wait |-> "none", status |-> 0, body |-> Undefined]

\* UploadPage's useState initial values (lines 7-11); no alert shown yet.
InitialUi ==
    [file |-> Null, result |-> Null, loading |-> FALSE,
     backendStatus |-> "checking", alert |-> ""]

NoAnswer == [kind |-> "none"]

\* The state after the modules are loaded, but for the environment.
Loaded ==
    /\ clock = 1
    /\ verificationHistory = << >>
    /\ verifiedDocs = {}
    /\ req = [r \in Requests |-> NewRequest]
    /\ get = NoGet
    /\ histOwner = << >>
    /\ appends = 0
    /\ ctl = [r \in Requests |-> NewCtlRequest]
    \* The pages are mounted and the mount effects have run: the first health
    \* check (UploadPage.jsx lines 17-18) and the provider's first history
    \* fetch (VerificationContext.jsx lines 56-58) have been sent.
    /\ ui = InitialUi
    /\ http = [health |-> "sent", uploads |-> 0, accounted |-> 0, added |-> {},
               fetches |-> <<[kind |-> "pending"]>>, answer |-> NoAnswer]
    /\ ctx = [verificationHistory |-> << >>, loading |-> TRUE]

\* The gateway has been started on port 5000.
Init == env \in [PRIVATE_KEY : EnvPrivateKeys] /\ port5000 = "gateway" /\ Loaded

\* The controller builds its wallet when the module is loaded (line 8), with
\* no default for the key: the process only comes up with a valid one.
InitController ==
    env = [PRIVATE_KEY |-> Str(DefaultPrivateKey)] /\ port5000 = "gateway" /\ Loaded

\* ------------------------------------------------------- pure helpers
\* getFraudRiskPercentage
getFraudRiskPercentage(risk) ==
    IF risk = Str("Low") THEN 25
    ELSE IF risk = Str("Medium") THEN 60
    ELSE IF risk = Str("High") THEN 90
    ELSE 50

\* Mutant of resultLabel: everything but 'High' passes.
resultLabel_notHigh(fraud_risk) ==
    IF fraud_risk = Str("High") THEN "Invalid" ELSE "Genuine"

\* fraud_risk === 'Low' ? 'Genuine' : 'Invalid'
resultLabel(fraud_risk) == IF fraud_risk = Str("Low") THEN "Genuine" ELSE "Invalid"

\* new Date().toISOString() at clock value t
toISOString(t) == <<"1970-01-01T00:00:00.00", t, "Z">>

\* The object literal of lines 57-67.
verificationRecord(file, data, fileHash, now) ==
    [id |-> now,
     filename |-> file.originalname,
     verifiedAt |-> toISOString(now),
     fraudRisk |-> getFraudRiskPercentage(Field(data, "fraud_risk")),
     result |-> resultLabel(Field(data, "fraud_risk")),
     documentType |-> JsOr(Field(data, "doc_type_ml"), Field(data, "doc_type_rule")),
     extractedText |-> Field(data, "extracted_text"),
     fraudIssues |-> JsOr(Field(data, "fraud_issues"), Arr(<< >>)),
     fileHash |-> fileHash]

\* The body of res.json(...) of lines 71-84.
okBody(file, data, fileHash, rec) ==
    [filename |-> file.originalname,
     verified_at |-> rec.verifiedAt,
     fraud_risk_percentage |-> rec.fraudRisk,
     result |-> rec.result,
     document_type |-> rec.documentType,
     extracted_text |-> Field(data, "extracted_text"),
     fraud_issues |-> Field(data, "fraud_issues"),
     fraud_risk |-> Field(data, "fraud_risk"),
     doc_type_ml |-> Field(data, "doc_type_ml"),
     doc_type_rule |-> Field(data, "doc_type_rule"),
     file_hash |-> fileHash,
     verification_id |-> rec.id]

\* Mutants of unshift: history[0] = rec, and history.push(rec).
unshift_overwrite(history, rec) ==
    IF history = << >> THEN <<rec>> ELSE <<rec>> \o Tail(history)
unshift_push(history, rec) == history \o <<rec>>

\* verificationHistory.unshift(rec)
unshift(history, rec) == <<rec>> \o history

\* The outer catch of lines 85-91.
errorBody(message) == [error |-> "Something went wrong", details |-> message]

Answer(r, status, body) ==
    [req[r] EXCEPT !.pc = "done", !.status = status, !.body = body]

\* ------------------------------------------------------------- actions
\* A millisecond passes: Date.now() returns the next value.
Tick ==
    /\ clock < MaxClock
    /\ clock' = clock + 1
    /\ get' = NoGet
    /\ UNCHANGED <<env, verificationHistory, verifiedDocs, req, histOwner, appends>>
    /\ UNCHANGED <<controllerVars, clientVars>>

\* Mutant of Receive: the early return of line 17 is missing, a request
\* without a file part goes on to the classifier call.
Receive_noReturn(r, hasFile, f) ==
    /\ req[r].pc = "new"
    /\ \A q \in Requests : q < r => req[q].pc # "new"
    /\ req' = [req EXCEPT ![r] = [@ EXCEPT !.pc = "classifying", !.file = f,
                                             !.hasFile = hasFile, !.arrived = appends]]
    /\ get' = NoGet
    /\ UNCHANGED <<env, clock, verificationHistory, verifiedDocs, histOwner, appends>>
    /\ UNCHANGED <<controllerVars, clientVars>>

\* Mutant of Receive: the fingerprint is taken before the classifier is called.
Receive_hashFirst(r, hasFile, f) ==
    /\ req[r].pc = "new"
    /\ \A q \in Requests : q < r => req[q].pc # "new"
    /\ IF ~hasFile
       THEN req' = [req EXCEPT ![r] = Answer(r, 400, [error |-> "No file uploaded"])]
       ELSE req' = [req EXCEPT ![r] = [@ EXCEPT !.pc = "classifying", !.file = f,
                                                !.hasFile = TRUE, !.arrived = appends,
                                                !.fileHash = keccak256(f.buffer)]]
    /\ get' = NoGet
    /\ UNCHANGED <<env, clock, verificationHistory, verifiedDocs, histOwner, appends>>
    /\ UNCHANGED <<controllerVars, clientVars>>

\* Lines 14-28: the request arrives; without a file part it is answered 400,
\* otherwise the form is built and axios.post is awaited.  The requests are
\* numbered in the order of their arrival.
Receive(r, hasFile, f) ==
    /\ req[r].pc = "new"
    /\ \A q \in Requests : q < r => req[q].pc # "new"
    /\ IF ~hasFile
       THEN req' = [req EXCEPT ![r] = Answer(r, 400, [error |-> "No file uploaded"])]
       ELSE req' = [req EXCEPT ![r] = [@ EXCEPT !.pc = "classifying", !.file = f,
                                                !.hasFile = TRUE, !.arrived = appends]]
    /\ get' = NoGet
    /\ UNCHANGED <<env, clock, verificationHistory, verifiedDocs, histOwner, appends>>
    /\ UNCHANGED <<controllerVars, clientVars>>

\* Lines 24-49: axios.post settles.  A rejection, a TypeError of the
\* destructuring and a throw of the Wallet constructor all land in the outer
\* catch (500); otherwise the hash is taken and contract.verifyDocument is
\* awaited.
ClassifierSettles(r, out) ==
    /\ req[r].pc = "classifying"
    /\ LET privateKey == JsOr(env.PRIVATE_KEY, Str(DefaultPrivateKey))
           withAi == [req[r] EXCEPT !.ai = out]
       IN  req' = [req EXCEPT ![r] =
             IF out.settled = "rejected"
             THEN [withAi EXCEPT !.pc = "done", !.status = 500,
                                 !.body = errorBody(out.message)]
             ELSE IF ~Destructurable(out.data)
             THEN [withAi EXCEPT !.pc = "done", !.status = 500,
                                 !.body = errorBody("Cannot destructure property of null")]
             ELSE IF ~IsPrivateKey(privateKey)
             THEN [withAi EXCEPT !.pc = "done", !.status = 500,
                                 !.fileHash = keccak256(req[r].file.buffer),
                                 !.body = errorBody("invalid private key")]
             ELSE [withAi EXCEPT !.pc = "submitting",
                                 !.fileHash = keccak256(req[r].file.buffer)]]
    /\ get' = NoGet
    /\ UNCHANGED <<env, clock, verificationHistory, verifiedDocs, histOwner, appends>>
    /\ UNCHANGED <<controllerVars, clientVars>>

\* ZeoDocumentVerifier.isVerified(docHash): the mapping's value, false for a
\* key never written.
isVerified(docHash) == docHash \in verifiedDocs

\* Mutant of LedgerSettles: the contract's require is missing, a known hash
\* is recorded again.
LedgerSettles_noRequire(r, reachable) ==
    /\ req[r].pc = "submitting"
    /\ LET h == req[r].fileHash
           outcome == IF ~reachable THEN "unreachable" ELSE "recorded"
       IN  /\ req' = [req EXCEPT ![r] = [@ EXCEPT !.pc = "submitted", !.ledger = outcome]]
           /\ verifiedDocs' = IF outcome = "recorded" THEN verifiedDocs \cup {h}
                              ELSE verifiedDocs
    /\ get' = NoGet
    /\ UNCHANGED <<env, clock, verificationHistory, histOwner, appends>>
    /\ UNCHANGED <<controllerVars, clientVars>>

\* The chain's answer to contract.verifyDocument(fileHash): the node is
\* unreachable (or times out), or the contract runs: it reverts with
\* "Already verified" on a known hash and records a new one.
LedgerSettles(r, reachable) ==
    /\ req[r].pc = "submitting"
    /\ LET h == req[r].fileHash
           outcome == IF ~reachable THEN "unreachable"
                      ELSE IF h \in verifiedDocs THEN "already verified"
                      ELSE "recorded"
       IN  /\ req' = [req EXCEPT ![r] = [@ EXCEPT !.pc = "submitted", !.ledger = outcome]]
           /\ verifiedDocs' = IF outcome = "recorded" THEN verifiedDocs \cup {h}
                              ELSE verifiedDocs
    /\ get' = NoGet
    /\ UNCHANGED <<env, clock, verificationHistory, histOwner, appends>>
    /\ UNCHANGED <<controllerVars, clientVars>>

\* Mutant of Complete: the inner try/catch is missing, a ledger failure
\* reaches the outer catch.
Complete_rethrow(r) ==
    /\ req[r].pc = "submitted"
    /\ LET rec == verificationRecord(req[r].file, req[r].ai.data, req[r].fileHash, clock)
       IN  IF req[r].ledger # "recorded"
           THEN /\ req' = [req EXCEPT ![r] = Answer(r, 500, errorBody(req[r].ledger))]
                /\ UNCHANGED <<verificationHistory, histOwner, appends>>
           ELSE /\ verificationHistory' = unshift(verificationHistory, rec)
                /\ histOwner' = unshift(histOwner, r)
                /\ appends' = appends + 1
                /\ req' = [req EXCEPT ![r] =
                             [Answer(r, 200, okBody(req[r].file, req[r].ai.data,
                                                    req[r].fileHash, rec))
                                EXCEPT !.appended = appends + 1]]
    /\ get' = NoGet
    /\ UNCHANGED <<env, clock, verifiedDocs>>
    /\ UNCHANGED <<controllerVars, clientVars>>

\* Mutant of Complete: a fingerprint already in the history is not stored again.
Complete_dedup(r) ==
    /\ req[r].pc = "submitted"
    /\ LET rec == verificationRecord(req[r].file, req[r].ai.data, req[r].fileHash, clock)
           known == \E i \in 1..Len(verificationHistory) :
                       verificationHistory[i].fileHash = rec.fileHash
       IN  /\ IF known
              THEN UNCHANGED <<verificationHistory, histOwner, appends>>
              ELSE /\ verificationHistory' = unshift(verificationHistory, rec)
                   /\ histOwner' = unshift(histOwner, r)
                   /\ appends' = appends + 1
           /\ req' = [req EXCEPT ![r] =
                        [Answer(r, 200, okBody(req[r].file, req[r].ai.data,
                                               req[r].fileHash, rec))
                           EXCEPT !.appended = IF known THEN 0 ELSE appends + 1]]
    /\ get' = NoGet
    /\ UNCHANGED <<env, clock, verifiedDocs>>
    /\ UNCHANGED <<controllerVars, clientVars>>

\* Mutant of Complete: after a failed ledger call the request is answered
\* 200 without a record being stored.
Complete_skipOnLedgerFailure(r) ==
    /\ req[r].pc = "submitted"
    /\ LET rec == verificationRecord(req[r].file, req[r].ai.data, req[r].fileHash, clock)
           skip == req[r].ledger # "recorded"
       IN  /\ IF skip
              THEN UNCHANGED <<verificationHistory, histOwner, appends>>
              ELSE /\ verificationHistory' = unshift(verificationHistory, rec)
                   /\ histOwner' = unshift(histOwner, r)
                   /\ appends' = appends + 1
           /\ req' = [req EXCEPT ![r] =
                        [Answer(r, 200, okBody(req[r].file, req[r].ai.data,
                                               req[r].fileHash, rec))
                           EXCEPT !.appended = IF skip THEN 0 ELSE appends + 1]]
    /\ get' = NoGet
    /\ UNCHANGED <<env, clock, verifiedDocs>>
    /\ UNCHANGED <<controllerVars, clientVars>>

\* Lines 48-84: the await of contract.verifyDocument resumes (fulfilled, or
\* rejected and caught by the inner catch); the record is built, put in
\* front of the history and the request is answered 200.
Complete(r) ==
    /\ req[r].pc = "submitted"
    /\ LET rec == verificationRecord(req[r].file, req[r].ai.data, req[r].fileHash, clock)
       IN  /\ verificationHistory' = unshift(verificationHistory, rec)
           /\ histOwner' = unshift(histOwner, r)
           /\ appends' = appends + 1
           /\ req' = [req EXCEPT ![r] =
                        [Answer(r, 200, okBody(req[r].file, req[r].ai.data,
                                               req[r].fileHash, rec))
                           EXCEPT !.appended = appends + 1]]
    /\ get' = NoGet
    /\ UNCHANGED <<env, clock, verifiedDocs>>
    /\ UNCHANGED <<controllerVars, clientVars>>

\* Mutant of GetHistory: the array is reversed in place before it is sent.
RECURSIVE reverse(_)
reverse(seq) == IF seq = << >> THEN << >> ELSE reverse(Tail(seq)) \o <<Head(seq)>>
GetHistory_reverse ==
    /\ verificationHistory' = reverse(verificationHistory)
    /\ histOwner' = reverse(histOwner)
    /\ get' = [route |-> "history", param |-> << >>, status |-> 200,
               body |-> [success |-> TRUE, data |-> verificationHistory',
                         total |-> Len(verificationHistory)]]
    /\ UNCHANGED <<env, clock, verifiedDocs, req, appends>>
    /\ UNCHANGED <<controllerVars, clientVars>>

\* Lines 95-109: GET /history answers with the whole array and its length.
historyBody(history) == [success |-> TRUE, data |-> history, total |-> Len(history)]

GetHistory ==
    /\ get' = [route |-> "history", param |-> << >>, status |-> 200,
               body |-> historyBody(verificationHistory)]
    /\ UNCHANGED <<env, clock, verificationHistory, verifiedDocs, req, histOwner, appends>>
    /\ UNCHANGED <<controllerVars, clientVars>>

\* verificationHistory.find(v => v.id === parseInt(req.params.id)): the index
\* of the first element with that id, 0 when there is none.
find(history, param) ==
    LET want == parseInt(param)
        hits == {i \in 1..Len(history) : Num(history[i].id) = want}
    IN  IF hits = {} THEN 0 ELSE CHOOSE i \in hits : \A j \in hits : i <= j

\* Lines 112-129: GET /history/:id.
byIdResponse(history, param) ==
    LET i == find(history, param)
    IN  IF i = 0
        THEN [route |-> "byId", param |-> param, status |-> 404,
              body |-> [error |-> "Verification not found"]]
        ELSE [route |-> "byId", param |-> param, status |-> 200,
              body |-> [success |-> TRUE, data |-> history[i]]]

GetById(param) ==
    /\ get' = byIdResponse(verificationHistory, param)
    /\ UNCHANGED <<env, clock, verificationHistory, verifiedDocs, req, histOwner, appends>>
    /\ UNCHANGED <<controllerVars, clientVars>>

Next ==
    \/ Tick
    \/ \E r \in Requests : Receive(r, FALSE, NoUpload)
    \/ \E r \in Requests, f \in Uploads : Receive(r, TRUE, f)
    \/ \E r \in Requests, out \in AxiosOutcomes : ClassifierSettles(r, out)
    \/ \E r \in Requests, reachable \in BOOLEAN : LedgerSettles(r, reachable)
    \/ \E r \in Requests : Complete(r)
    \/ GetHistory
    \/ \E param \in Params : GetById(param)

Spec == Init /\ [][Next]_vars

\* The POST handler alone, with the progress the event loop gives it.  A step
\* that only needs the process itself is taken once it can be: the
\* continuation after the ledger await (Complete).  The ledger call is taken
\* to settle as well (ethers puts its own timeout on every RPC request it
\* sends).  ClassifierSettles needs the answer of the classifier endpoint,
\* and the handler arms no timer for that await (axios.post is called without
\* a timeout option, lines 24-28, and axios' default is none): while the
\* endpoint stays silent no step of the handler is due.
NextPost ==
    \/ \E r \in Requests : Receive(r, FALSE, NoUpload)
    \/ \E r \in Requests, f \in Uploads : Receive(r, TRUE, f)
    \/ \E r \in Requests, out \in AxiosOutcomes : ClassifierSettles(r, out)
    \/ \E r \in Requests, reachable \in BOOLEAN : LedgerSettles(r, reachable)
    \/ \E r \in Requests : Complete(r)

SpecLive ==
    /\ Init
    /\ [][NextPost]_vars
    /\ \A r \in Requests :
          /\ WF_vars(Complete(r))
          /\ WF_vars(\E reachable \in BOOLEAN : LedgerSettles(r, reachable))

\* =================================================================
\* The controller entry point: controllers/verifyController.js, mounted by
\* the alternate route file as POST /.  Its wallet and contract are built
\* once, when the module is loaded.
\* =================================================================
\* What `await axios.post(process.env.FLASK_AI_URL, {filename})` yields: a
\* rejection, the body the code's comment expects ({fraudScore}), the body
\* the classifier of routes/verify.js answers with (no fraudScore), or null.
AiScore == Obj([fraudScore |-> Num(20)])
CtlAxiosOutcomes ==
    { [settled |-> "rejected", message |-> "connect ECONNREFUSED 127.0.0.1:5001"],
      [settled |-> "fulfilled", data |-> AiScore],
      [settled |-> "fulfilled", data |-> AiLow],
      [settled |-> "fulfilled", data |-> Null] }

\* aiResult.fraudScore.toString() throws a TypeError unless aiResult is an
\* object with a fraudScore.
HasFraudScore(data) == Field(data, "fraudScore").t = "number"

\* What `await contract.storeVerificationResult(name, score)` yields: the
\* transaction was sent (tx, with its hash), or the call was rejected (node
\* unreachable, revert on estimation, or no such function in the ABI).
StoreOutcomes ==
    { [settled |-> "rejected", message |-> "could not send transaction"],
      [settled |-> "fulfilled", hash |-> "0xtx"] }

\* What `await tx.wait()` yields: the receipt, or a rejection (the
\* transaction reverted, was replaced, or the wait timed out).
WaitOutcomes == {"mined", "failed"}

CtlAnswer(r, status, body) ==
    [ctl[r] EXCEPT !.pc = "done", !.status = status, !.body = body]

\* The body of res.json of lines 43-47.
ctlOkBody(tx, aiResult) ==
    [message |-> "Document verified & stored on blockchain",
     txHash |-> tx.hash, aiResult |-> aiResult]

\* The catch of lines 48-51.
ctlErrorBody == [error |-> "Something went wrong"]

\* Lines 17-28: the request arrives; without a file it is answered 400,
\* otherwise axios.post is awaited.
verifyDocument(r, hasFile, f) ==
    /\ ctl[r].pc = "new"
    /\ \A q \in Requests : q < r => ctl[q].pc # "new"
    /\ IF ~hasFile
       THEN ctl' = [ctl EXCEPT ![r] = CtlAnswer(r, 400, [error |-> "File not provided"])]
       ELSE ctl' = [ctl EXCEPT ![r] = [@ EXCEPT !.pc = "classifying", !.file = f,
                                                !.hasFile = TRUE]]
    /\ UNCHANGED <<gatewayVars, clientVars>>

\* Lines 26-38: axios.post settles.  A rejection, and a TypeError of
\* aiResult.fraudScore.toString(), land in the catch (500); otherwise
\* contract.storeVerificationResult is awaited.
verifyDocument_classified(r, out) ==
    /\ ctl[r].pc = "classifying"
    /\ LET withAi == [ctl[r] EXCEPT !.ai = out]
       IN  ctl' = [ctl EXCEPT ![r] =
             IF out.settled = "rejected" \/ ~HasFraudScore(out.data)
             THEN [withAi EXCEPT !.pc = "done", !.status = 500, !.body = ctlErrorBody]
             ELSE [withAi EXCEPT !.pc = "storing"]]
    /\ UNCHANGED <<gatewayVars, clientVars>>

\* Lines 35-39: contract.storeVerificationResult settles.  A rejection lands
\* in the catch (500); otherwise tx.wait() is awaited.
verifyDocument_stored(r, out) ==
    /\ ctl[r].pc = "storing"
    /\ LET withTx == [ctl[r] EXCEPT !.store = out]
       IN  ctl' = [ctl EXCEPT ![r] =
             IF out.settled = "rejected"
             THEN [withTx EXCEPT !.pc = "done", !.status = 500, !.body = ctlErrorBody]
             ELSE [withTx EXCEPT !.pc = "waiting"]]
    /\ UNCHANGED <<gatewayVars, clientVars>>

\* Lines 39-51: tx.wait() settles.  A rejection lands in the catch (500);
\* otherwise the request is answered with the hash and the classifier's
\* result.
verifyDocument_waited(r, out) ==
    /\ ctl[r].pc = "waiting"
    /\ ctl' = [ctl EXCEPT ![r] =
          IF out = "failed"
          THEN [CtlAnswer(r, 500, ctlErrorBody) EXCEPT !.wait = out]
          ELSE [CtlAnswer(r, 200, ctlOkBody(ctl[r].store, ctl[r].ai.data))
                   EXCEPT !.wait = out]]
    /\ UNCHANGED <<gatewayVars, clientVars>>

NextController ==
    \/ \E r \in Requests : verifyDocument(r, FALSE, NoUpload)
    \/ \E r \in Requests, f \in Uploads : verifyDocument(r, TRUE, f)
    \/ \E r \in Requests, out \in CtlAxiosOutcomes : verifyDocument_classified(r, out)
    \/ \E r \in Requests, out \in StoreOutcomes : verifyDocument_stored(r, out)
    \/ \E r \in Requests, out \in WaitOutcomes : verifyDocument_waited(r, out)

SpecController == InitController /\ [][NextController]_vars

\* =================================================================
\* The browser client: pages/UploadPage.jsx, pages/ResultPage.jsx,
\* services/api.js and context/VerificationContext.jsx, talking to
\* http://localhost:5000.
\* =================================================================
\* Number of uploads the page lets through to the context's history.
MaxUploads == 2
\* Number of fetchVerificationHistory calls in flight at once.
MaxFetches == 2
\* Number of uploads the gateway takes from the client.
MaxClientReq == 1
ClientRequests == 1..MaxClientReq

\* What the classifier call of such an upload ends with: a rejection, the
\* full body, or the body of ai-engine/README.md (no fraud_issues, no
\* doc_type_ml, a fraud_risk outside Low, Medium and High).
ClientAxiosOutcomes ==
    { [settled |-> "rejected", message |-> "connect ECONNREFUSED 127.0.0.1:5001"],
      [settled |-> "fulfilled", data |-> AiLow],
      [settled |-> "fulfilled", data |-> AiReadme] }

\* The files the user can pick (a File is kept as its name).
ClientFiles == {Str("a.pdf")}

\* formData.append('file', file) as multer hands it to the router.
FormData(file) == [buffer |-> <<1>>, originalname |-> file.v]

Bool(b) == [t |-> "boolean", v |-> b]

\* What an axios call of the client ends with: an HTTP response, or an
\* AxiosError that has a request and no response, with its code.
Response(status, statusText, data) ==
    [kind |-> "response", status |-> status, statusText |-> statusText, data |-> data]
NoResponseError(code) == [kind |-> "error", code |-> code]

\* A call that has been sent and not been answered yet.
Pending == [kind |-> "pending"]

\* axios fulfils on a 2xx status and rejects otherwise (validateStatus).
Fulfilled(answer) == answer.kind = "response" /\ answer.status \in 200..299

\* A body after res.json and axios' JSON.parse: keys whose value is
\* undefined are not sent.
json(o) == Obj([k \in {j \in DOMAIN o : o[j] # Undefined} |-> o[k]])

\* A timestamp and a hex digest as they arrive: strings.
IsoString(t) == [t |-> "string", v |-> "1970-01-01T00:00:00.00Z", ms |-> t]
HexString(h) == [t |-> "string", v |-> "0x", digest |-> h]

\* The 200 body of the router's POST / as the client reads it.
okJson(b) ==
    json([filename |-> Str(b.filename),
          verified_at |-> IsoString(b.verified_at[2]),
          fraud_risk_percentage |-> Num(b.fraud_risk_percentage),
          result |-> Str(b.result),
          document_type |-> b.document_type,
          extracted_text |-> b.extracted_text,
          fraud_issues |-> b.fraud_issues,
          fraud_risk |-> b.fraud_risk,
          doc_type_ml |-> b.doc_type_ml,
          doc_type_rule |-> b.doc_type_rule,
          file_hash |-> HexString(b.file_hash),
          verification_id |-> Num(b.verification_id)])

\* The 400 and 500 bodies of the router: strings under their keys.
errorJson(b) == Obj([k \in DOMAIN b |-> Str(b[k])])

\* An element of the router's verificationHistory as the client reads it
\* out of GET /history.  An entry of the context's list is kept in this
\* shape, a key that is not there reading as undefined.
recordJson(rec) ==
    [id |-> Num(rec.id),
     filename |-> Str(rec.filename),
     verifiedAt |-> IsoString(rec.verifiedAt[2]),
     fraudRisk |-> rec.fraudRisk,
     result |-> rec.result,
     documentType |-> rec.documentType,
     extractedText |-> rec.extractedText,
     fraudIssues |-> rec.fraudIssues,
     fileHash |-> HexString(rec.fileHash)]

\* The 200 body of the router's GET /history as the client reads it.
historyJson(b) ==
    Obj([success |-> Bool(b.success),
         data |-> Arr([i \in 1..Len(b.data) |-> recordJson(b.data[i])]),
         total |-> Num(b.total)])

StatusText(status) ==
    IF status = 200 THEN "OK"
    ELSE IF status = 400 THEN "Bad Request"
    ELSE IF status = 404 THEN "Not Found"
    ELSE "Internal Server Error"

\* The router's requests that have arrived, and those of them that belong
\* to an upload of the client still in flight.
Arrivals == Cardinality({r \in Requests : req[r].pc # "new"})
Delivered == Arrivals - http.accounted

\* The router mounted at /api/verify, seen from the client.  POST / answers
\* when its handler has run to a response; GET /history answers at once
\* with the array as it is.
verifyRoute(method, path) ==
    IF method = "POST" /\ path = "/api/verify"
    THEN {Response(req[r].status, StatusText(req[r].status),
                   IF req[r].status = 200 THEN okJson(req[r].body)
                   ELSE errorJson(req[r].body)) :
             r \in {q \in Requests : q = http.accounted + 1 /\ req[q].pc = "done"}}
    ELSE IF method = "GET" /\ path = "/api/verify/history"
    THEN {Response(200, "OK", historyJson(historyBody(verificationHistory)))}
    ELSE {}

\* The Express app of the server entry file: cors, express.json and one
\* mount, app.use('/api/verify', verifyRoute).  A request no route matches
\* falls through to Express' final handler: 404 with an HTML body.
app(method, path) ==
    IF path \in {"/api/verify", "/api/verify/history"}
    THEN verifyRoute(method, path)
    ELSE {Response(404, "Not Found", Str("Cannot GET /health"))}

\* The file-upload answer of the Flask API app_simple.py, as the integration
\* guide gives it: no filename, no verification_id.
FlaskOk ==
    Obj([doc_type_ml |-> Str("real_estate"), doc_type_rule |-> Str("real_estate"),
         fraud_risk |-> Str("Low"), doc_confidence |-> Num(85),
         fraud_risk_percent |-> Num(25), fraud_issues |-> Arr(<< >>),
         extracted_text |-> Str("deed text"), file_hash |-> HexString(2)])

\* The Flask API app_simple.py, which the guide starts on port 5000 too.
appSimple(method, path) ==
    IF method = "GET" /\ path = "/health"
    THEN {Response(200, "OK", Obj([status |-> Str("running"), model_loaded |-> Bool(TRUE)]))}
    ELSE IF method = "POST" /\ path = "/api/verify"
    THEN {Response(200, "OK", FlaskOk)}
    ELSE {Response(404, "Not Found", Str("Not Found"))}

\* What can listen on port 5000: nothing, the gateway, or the Flask API.
Listeners == {"none", "gateway", "flask"}

\* The ends a request of the client can come to.  With no listener the
\* connection is refused (code ECONNREFUSED under Node's http adapter,
\* ERR_NETWORK under the browser's); a listener answers, and an upload can
\* also run into the instance's 30 s timeout (ECONNABORTED).
Answers(listener, method, path) ==
    IF listener = "none"
    THEN {NoResponseError("ECONNREFUSED"), NoResponseError("ERR_NETWORK")}
    ELSE (IF listener = "gateway" THEN app(method, path) ELSE appSimple(method, path))
           \cup (IF method = "POST" THEN {NoResponseError("ECONNABORTED")} ELSE {})

MsgNotRunning == "Backend service is not running. Please start the backend first."
MsgNotFound == "Backend service not found. Please check if the API is running on port 5000."
MsgNoResponse == "No response from backend. Please check if the API is running."
MsgTypeError == "Cannot read properties of null (reading 'verification_id')"

\* `HTTP ${status}: ${statusText}`
HttpMessage(status) ==
    IF status = 404 THEN "HTTP 404: Not Found"
    ELSE IF status = 500 THEN "HTTP 500: Internal Server Error"
    ELSE "HTTP"

\* The response interceptor's error handler: the message of the Error it
\* throws for a rejected call.
interceptor(error) ==
    IF error.kind = "error" /\ error.code = "ECONNREFUSED" THEN MsgNotRunning
    ELSE IF error.kind = "error" /\ error.code = "ENOTFOUND" THEN MsgNotFound
    ELSE IF error.kind = "response"
    THEN LET e == Field(error.data, "error")
         IN  IF Truthy(e) THEN e.v ELSE HttpMessage(error.status)
    ELSE MsgNoResponse

\* message.includes(needle), over the messages the interceptor can throw.
\* None of them holds 'connection refused' or 'timeout'.
includes(message, needle) ==
    needle = "Backend service is not running" /\ message = MsgNotRunning

\* checkBackendHealth: response.status === 200, false when the call throws.
checkBackendHealth(answer) == Fulfilled(answer) /\ answer.status = 200

\* Mutant of ctxGetFraudRiskPercentage: the default is 0.
ctxGetFraudRiskPercentage_defaultZero(risk) ==
    IF risk = Str("Low") THEN 25
    ELSE IF risk = Str("Medium") THEN 60
    ELSE IF risk = Str("High") THEN 90
    ELSE 0

\* VerificationContext's own getFraudRiskPercentage.
ctxGetFraudRiskPercentage(risk) ==
    IF risk = Str("Low") THEN 25
    ELSE IF risk = Str("Medium") THEN 60
    ELSE IF risk = Str("High") THEN 90
    ELSE 50

\* `document_${Date.now()}.pdf`
GeneratedName(now) == [t |-> "string", v |-> "document_.pdf", stamp |-> now]

\* addVerificationToHistory: the new entry, and the history with it in front.
newVerification(verificationData, now) ==
    [id |-> JsOr(Field(verificationData, "verification_id"), Num(now)),
     filename |-> JsOr(Field(verificationData, "filename"), GeneratedName(now)),
     verifiedAt |-> IsoString(now),
     fraudRisk |-> ctxGetFraudRiskPercentage(Field(verificationData, "fraud_risk")),
     result |-> IF Field(verificationData, "fraud_risk") = Str("Low")
                THEN "Genuine" ELSE "Invalid",
     documentType |-> JsOr(Field(verificationData, "doc_type_ml"),
                           Field(verificationData, "doc_type_rule")),
     extractedText |-> Field(verificationData, "extracted_text"),
     fraudIssues |-> JsOr(Field(verificationData, "fraud_issues"), Arr(<< >>)),
     fileHash |-> Field(verificationData, "file_hash")]

addVerificationToHistory(prev, verificationData, now) ==
    <<newVerification(verificationData, now)>> \o prev

\* response.data.data || []
fetchedHistory(data) == JsOr(Field(data, "data"), Arr(<< >>))

Consumed(answer) == [http EXCEPT !.answer = answer]

\* A process is started on port 5000, or the one there is stopped.  The
\* gateway is started once and keeps running.
Listen(listener) ==
    /\ port5000 # "gateway"
    /\ listener # port5000
    /\ listener = "none" \/ port5000 = "none"
    /\ port5000' = listener
    /\ http' = Consumed(NoAnswer)
    /\ UNCHANGED <<ui, ctx, gatewayVars, controllerVars>>

\* checkBackendConnection up to its await (UploadPage.jsx lines 24-26), run
\* by the 30 s interval: api.get('/health') is sent.
checkBackendConnection ==
    /\ http.health = "idle"
    /\ http' = [Consumed(NoAnswer) EXCEPT !.health = "sent"]
    /\ UNCHANGED <<port5000, ui, ctx, gatewayVars, controllerVars>>

\* Lines 26-30: the health call settles and backendStatus is set.
checkBackendConnection_settled(answer) ==
    /\ http.health = "sent"
    /\ answer \in Answers(port5000, "GET", "/health")
    /\ ui' = [ui EXCEPT !.backendStatus =
                 IF checkBackendHealth(answer) THEN "connected" ELSE "disconnected"]
    /\ http' = [Consumed(answer) EXCEPT !.health = "idle"]
    /\ UNCHANGED <<port5000, ctx, gatewayVars, controllerVars>>

\* handleFileChange and handleDrop: the picked file replaces the old one and
\* the result is cleared.
handleFileChange(selectedFile) ==
    /\ ui' = [ui EXCEPT !.file = selectedFile, !.result = Null]
    /\ http' = Consumed(NoAnswer)
    /\ UNCHANGED <<port5000, ctx, gatewayVars, controllerVars>>

\* Mutant of UploadButton: the button is not disabled while loading.
UploadButton_enabledWhileLoading == ui.file # Null

\* The upload button: rendered only with a file, disabled while loading.
UploadButton == ui.file # Null /\ ~ui.loading

\* Mutant of handleUpload: backendStatus is not looked at.
handleUpload_anyStatus ==
    /\ Len(ctx.verificationHistory) < MaxUploads
    /\ IF ui.file = Null
       THEN /\ ui' = [ui EXCEPT !.alert = "Please select a file first!"]
            /\ http' = Consumed(NoAnswer)
       ELSE /\ ui' = [ui EXCEPT !.loading = TRUE]
            /\ http' = [Consumed(NoAnswer) EXCEPT !.uploads = @ + 1]
    /\ UNCHANGED <<port5000, ctx, gatewayVars, controllerVars>>

\* handleUpload up to its await (lines 62-76).  Without a file, or without a
\* connected backend, the user gets an alert; otherwise the upload is sent.
handleUpload ==
    /\ Len(ctx.verificationHistory) < MaxUploads
    /\ IF ui.file = Null
       THEN /\ ui' = [ui EXCEPT !.alert = "Please select a file first!"]
            /\ http' = Consumed(NoAnswer)
       ELSE IF ui.backendStatus # "connected"
       THEN /\ ui' = [ui EXCEPT !.alert =
                 "Backend service is not connected. Please check if the API is running on port 5000."]
            /\ http' = Consumed(NoAnswer)
       ELSE /\ ui' = [ui EXCEPT !.loading = TRUE]
            /\ http' = [Consumed(NoAnswer) EXCEPT !.uploads = @ + 1]
    /\ UNCHANGED <<port5000, ctx, gatewayVars, controllerVars>>

\* The upload reaches the gateway: multer hands the file to the router's
\* POST handler.
uploadDocument_arrives(r) ==
    /\ port5000 = "gateway"
    /\ Delivered < http.uploads
    /\ \E file \in ClientFiles : Receive(r, TRUE, FormData(file))

\* Mutant of handleUpload_settled: every failure marks the backend as gone.
handleUpload_settled_alwaysDisconnected(answer) ==
    /\ http.uploads > 0
    /\ answer \in Answers(port5000, "POST", "/api/verify")
    /\ IF Fulfilled(answer) /\ Destructurable(answer.data)
       THEN /\ ui' = [ui EXCEPT !.result = answer.data, !.loading = FALSE]
            /\ ctx' = [ctx EXCEPT !.verificationHistory =
                          addVerificationToHistory(@, answer.data, clock)]
       ELSE LET message == IF Fulfilled(answer) THEN MsgTypeError ELSE interceptor(answer)
                notRunning == includes(message, "Backend service is not running")
                refused == includes(message, "connection refused")
                errorMessage ==
                    IF notRunning THEN MsgNotRunning
                    ELSE IF refused
                    THEN "Cannot connect to backend. Please check if the API is running on port 5000."
                    ELSE IF includes(message, "timeout")
                    THEN "Request timed out. Please try again."
                    ELSE IF message # "" THEN message
                    ELSE "Error uploading file. Please try again."
            IN  /\ ui' = [ui EXCEPT !.alert = errorMessage, !.loading = FALSE,
                                    !.result = IF Fulfilled(answer) THEN answer.data ELSE @,
                                    !.backendStatus =
                                        "disconnected"]
                /\ UNCHANGED ctx
    /\ http' = [Consumed(answer) EXCEPT !.uploads = @ - 1,
                    !.accounted = IF Delivered > 0 THEN @ + 1 ELSE @,
                    !.added = IF Fulfilled(answer) /\ Destructurable(answer.data)
                              THEN @ \cup {newVerification(answer.data, clock)} ELSE @]
    /\ UNCHANGED <<port5000, gatewayVars, controllerVars>>

\* Lines 76-104: uploadDocument settles.  On a 2xx answer the result is
\* shown and put into the context's history (which throws on a body that
\* has no properties); otherwise the interceptor's message decides the alert
\* and whether the backend counts as gone.
handleUpload_settled(answer) ==
    /\ http.uploads > 0
    /\ answer \in Answers(port5000, "POST", "/api/verify")
    /\ IF Fulfilled(answer) /\ Destructurable(answer.data)
       THEN /\ ui' = [ui EXCEPT !.result = answer.data, !.loading = FALSE]
            /\ ctx' = [ctx EXCEPT !.verificationHistory =
                          addVerificationToHistory(@, answer.data, clock)]
       ELSE LET message == IF Fulfilled(answer) THEN MsgTypeError ELSE interceptor(answer)
                notRunning == includes(message, "Backend service is not running")
                refused == includes(message, "connection refused")
                errorMessage ==
                    IF notRunning THEN MsgNotRunning
                    ELSE IF refused
                    THEN "Cannot connect to backend. Please check if the API is running on port 5000."
                    ELSE IF includes(message, "timeout")
                    THEN "Request timed out. Please try again."
                    ELSE IF message # "" THEN message
                    ELSE "Error uploading file. Please try again."
            IN  /\ ui' = [ui EXCEPT !.alert = errorMessage, !.loading = FALSE,
                                    !.result = IF Fulfilled(answer) THEN answer.data ELSE @,
                                    !.backendStatus =
                                        IF notRunning \/ refused THEN "disconnected" ELSE @]
                /\ UNCHANGED ctx
    /\ http' = [Consumed(answer) EXCEPT !.uploads = @ - 1,
                    !.accounted = IF Delivered > 0 THEN @ + 1 ELSE @,
                    !.added = IF Fulfilled(answer) /\ Destructurable(answer.data)
                              THEN @ \cup {newVerification(answer.data, clock)} ELSE @]
    /\ UNCHANGED <<port5000, gatewayVars, controllerVars>>

\* fetchVerificationHistory up to its await (VerificationContext.jsx lines
\* 18-21), called by ResultPage's mount effect, its visibilitychange
\* listener and its Refresh button: loading is set and GET
\* /api/verify/history is sent.
fetchVerificationHistory ==
    /\ Len(http.fetches) < MaxFetches
    /\ ctx' = [ctx EXCEPT !.loading = TRUE]
    /\ http' = [Consumed(NoAnswer) EXCEPT !.fetches = Append(@, Pending)]
    /\ UNCHANGED <<port5000, ui, gatewayVars, controllerVars>>

\* The i-th history call in flight is answered; the answer is on its way.
getVerificationHistory_answered(i, answer) ==
    /\ i \in 1..Len(http.fetches)
    /\ http.fetches[i] = Pending
    /\ answer \in Answers(port5000, "GET", "/api/verify/history")
    /\ http' = [Consumed(NoAnswer) EXCEPT !.fetches[i] = answer]
    /\ UNCHANGED <<port5000, ui, ctx, gatewayVars, controllerVars>>

\* Mutant of fetchVerificationHistory_settled: the catch clears the list.
fetchVerificationHistory_settled_clearOnError(i) ==
    /\ i \in 1..Len(http.fetches)
    /\ http.fetches[i] # Pending
    /\ LET response == http.fetches[i]
       IN  /\ ctx' = [verificationHistory |->
                          IF Fulfilled(response) /\ Destructurable(response.data)
                          THEN fetchedHistory(response.data).v
                          ELSE << >>,
                      loading |-> FALSE]
           /\ http' = [Consumed(response) EXCEPT !.fetches =
                          SubSeq(@, 1, i - 1) \o SubSeq(@, i + 1, Len(@))]
    /\ UNCHANGED <<port5000, ui, gatewayVars, controllerVars>>

\* Lines 21-27: the i-th history call settles.  A 2xx answer replaces the
\* list by response.data.data || []; a rejection (or a body without
\* properties) is logged; finally loading is cleared.
fetchVerificationHistory_settled(i) ==
    /\ i \in 1..Len(http.fetches)
    /\ http.fetches[i] # Pending
    /\ LET response == http.fetches[i]
       IN  /\ ctx' = [verificationHistory |->
                          IF Fulfilled(response) /\ Destructurable(response.data)
                          THEN fetchedHistory(response.data).v
                          ELSE ctx.verificationHistory,
                      loading |-> FALSE]
           /\ http' = [Consumed(response) EXCEPT !.fetches =
                          SubSeq(@, 1, i - 1) \o SubSeq(@, i + 1, Len(@))]
    /\ UNCHANGED <<port5000, ui, gatewayVars, controllerVars>>

NextClient ==
    \/ Tick
    \/ \E listener \in Listeners : Listen(listener)
    \/ checkBackendConnection
    \/ \E answer \in Answers(port5000, "GET", "/health") :
          checkBackendConnection_settled(answer)
    \/ \E selectedFile \in ClientFiles : handleFileChange(selectedFile)
    \/ UploadButton /\ handleUpload
    \/ \E r \in ClientRequests : uploadDocument_arrives(r)
    \/ \E r \in ClientRequests, out \in ClientAxiosOutcomes : ClassifierSettles(r, out)
    \/ \E r \in ClientRequests : LedgerSettles(r, TRUE)
    \/ \E r \in ClientRequests : Complete(r)
    \/ \E answer \in Answers(port5000, "POST", "/api/verify") :
          handleUpload_settled(answer)
    \/ fetchVerificationHistory
    \/ \E i \in 1..MaxFetches, answer \in Answers(port5000, "GET", "/api/verify/history") :
          getVerificationHistory_answered(i, answer)
    \/ \E i \in 1..MaxFetches : fetchVerificationHistory_settled(i)

\* Nothing listens on port 5000 yet; PRIVATE_KEY is not set.
InitClient == env = [PRIVATE_KEY |-> Undefined] /\ port5000 = "none" /\ Loaded

SpecClient == InitClient /\ [][NextClient]_vars

\* =================================================================
\* Properties
\* =================================================================
Done(r) == req[r].pc = "done"

\* The classifier call succeeded: axios fulfilled with a parsed JSON object.
\* It failed: axios rejected (connection error, non-2xx), or the body was no
\* JSON (axios hands the raw string on) or no object.
ClassifierOk(out) == out.settled = "fulfilled" /\ out.data.t = "object"
ClassifierFailed(out) ==
    \/ out.settled = "rejected"
    \/ out.settled = "fulfilled" /\ out.data.t # "object"

\* The positions of verificationHistory that request r's handler filled.
Owned(r) == {i \in 1..Len(histOwner) : histOwner[i] = r}

\* The contract call was awaited and failed (revert "Already verified",
\* node unreachable or timed out).
LedgerFailed(r) == req[r].ledger \in {"already verified", "unreachable"}

\* C1 (as claimed): a POST /verify request whose classifier call failed
\* (connection error, non-2xx, unparsable body) is answered 500 or 502 and
\* has put no record into the history.
C1_ClassifierFailureLeavesNoRecord ==
    \A r \in Requests :
        (Done(r) /\ ClassifierFailed(req[r].ai)) =>
            /\ req[r].status \in {500, 502}
            /\ Owned(r) = {}

\* C2: a request whose classifier call succeeded and whose
\* contract.verifyDocument call failed is answered 200 and has put exactly
\* one record into the history.
C2_LedgerFailureStillRecords ==
    \A r \in Requests :
        (Done(r) /\ ClassifierOk(req[r].ai) /\ LedgerFailed(r)) =>
            /\ req[r].status = 200
            /\ Cardinality(Owned(r)) = 1

\* C2 witness: an answered request whose submission the contract rejected
\* as already verified.
C2_Witness ==
    \E r \in Requests :
        /\ Done(r) /\ ClassifierOk(req[r].ai) /\ req[r].ledger = "already verified"
        /\ req[r].status = 200 /\ Owned(r) # {}

FraudRiskValues ==
    {Str("Low"), Str("Medium"), Str("High"), Str("low"), Str("LOW"), Str("Low "),
     Str(""), Str("Unknown"), Undefined, Null}

GenuineIffLow(label, risk) == (label = "Genuine") <=> (risk = Str("Low"))

\* C3: the result of every stored record and of every 200 response is
\* "Genuine" exactly when the classifier's fraud_risk is the string "Low",
\* and "Invalid" for every other value (other levels, other case, missing).
C3_GenuineIffLow ==
    /\ \A i \in 1..Len(verificationHistory) :
          /\ verificationHistory[i].result \in {"Genuine", "Invalid"}
          /\ GenuineIffLow(verificationHistory[i].result,
                           Field(req[histOwner[i]].ai.data, "fraud_risk"))
    /\ \A r \in Requests :
          (Done(r) /\ req[r].status = 200) =>
              /\ req[r].body.result \in {"Genuine", "Invalid"}
              /\ GenuineIffLow(req[r].body.result, Field(req[r].ai.data, "fraud_risk"))
              /\ GenuineIffLow(req[r].body.result, req[r].body.fraud_risk)
    /\ \A risk \in FraudRiskValues :
          /\ resultLabel(risk) \in {"Genuine", "Invalid"}
          /\ GenuineIffLow(resultLabel(risk), risk)

\* C3 witness: the history holds a Genuine record, an Invalid one for
\* "Medium" and the last request was answered Invalid for a lower-case or
\* missing fraud_risk.
C3_Witness ==
    \E i, j \in 1..Len(verificationHistory) :
        /\ verificationHistory[i].result = "Genuine"
        /\ verificationHistory[j].result = "Invalid"
        /\ Field(req[histOwner[j]].ai.data, "fraud_risk") \in {Str("low"), Undefined}

\* C4 (as claimed): no two records of the history carry the same id.
C4_IdsPairwiseDistinct ==
    \A i, j \in 1..Len(verificationHistory) :
        i # j => verificationHistory[i].id # verificationHistory[j].id

\* C5: requests whose classifier calls succeeded and that awaited the ledger
\* each end with exactly one record of their own in the history, whatever
\* the interleaving of their awaits; the history holds as many records as
\* requests have got past the ledger await, none lost or overwritten.
C5_NoAppendLost ==
    /\ Len(histOwner) = Len(verificationHistory)
    /\ Len(verificationHistory) =
          Cardinality({r \in Requests : Done(r) /\ req[r].ledger # "none"})
    /\ \A r \in Requests :
          (Done(r) /\ ClassifierOk(req[r].ai) /\ req[r].ledger # "none") =>
              /\ Cardinality(Owned(r)) = 1
              /\ \A i \in Owned(r) :
                    /\ verificationHistory[i].filename = req[r].file.originalname
                    /\ verificationHistory[i].fileHash = req[r].fileHash
                    /\ verificationHistory[i].fraudRisk =
                          getFraudRiskPercentage(Field(req[r].ai.data, "fraud_risk"))

\* C5 witness: two requests were in flight together (each arrived before the
\* other's unshift), both classifier calls succeeded, and the history holds
\* both records.
C5_Witness ==
    \E r, q \in Requests :
        /\ r # q /\ Done(r) /\ Done(q)
        /\ ClassifierOk(req[r].ai) /\ ClassifierOk(req[q].ai)
        /\ req[r].appended > 0 /\ req[q].appended > 0
        /\ req[r].arrived < req[q].appended /\ req[q].arrived < req[r].appended
        /\ Len(verificationHistory) = 2

\* The position of the record that request r's handler put into the history.
RecordOf(r) == CHOOSE i \in Owned(r) : TRUE

\* Request q was answered 200 before request r arrived.
CompletedBefore(q, r) ==
    /\ Done(q) /\ req[q].status = 200 /\ req[q].appended > 0
    /\ req[r].hasFile /\ req[r].arrived >= req[q].appended

\* C6: when the same bytes are uploaded again after the first upload
\* completed, and the classifier succeeds both times, the second request
\* still puts its own record into the history (two records, no
\* deduplication) and both records carry the same fileHash; in general two
\* records whose uploads had the same bytes carry the same fileHash,
\* whatever the filename, the classifier's answer or the ledger's.
C6_SameBytesNotDeduplicated ==
    /\ \A q, r \in Requests :
          (/\ q # r /\ Done(r) /\ CompletedBefore(q, r)
           /\ ClassifierOk(req[q].ai) /\ ClassifierOk(req[r].ai)
           /\ req[q].file.buffer = req[r].file.buffer) =>
              /\ req[r].status = 200
              /\ Cardinality(Owned(q)) = 1 /\ Cardinality(Owned(r)) = 1
              /\ RecordOf(q) # RecordOf(r)
              /\ req[r].appended > req[q].appended
              /\ Len(verificationHistory) >= 2
              /\ verificationHistory[RecordOf(q)].fileHash =
                    verificationHistory[RecordOf(r)].fileHash
    /\ \A i, j \in 1..Len(verificationHistory) :
          (req[histOwner[i]].file.buffer = req[histOwner[j]].file.buffer)
              => (verificationHistory[i].fileHash = verificationHistory[j].fileHash)

\* C6 witness: the same bytes went through twice, the second upload after
\* the first was answered, under another filename, with another classifier
\* answer and another ledger outcome; the history holds both records.
C6_Witness ==
    \E q, r \in Requests :
        /\ q # r /\ Done(r) /\ CompletedBefore(q, r)
        /\ ClassifierOk(req[q].ai) /\ ClassifierOk(req[r].ai)
        /\ req[q].file.buffer = req[r].file.buffer
        /\ req[q].file.originalname # req[r].file.originalname
        /\ req[q].ai # req[r].ai
        /\ req[q].ledger = "recorded" /\ req[r].ledger = "already verified"
        /\ Len(verificationHistory) = 2

\* C7 (as claimed): GET /history/:id with the verification_id of a 200
\* response returns the record that this request appended, and its fields
\* equal those of that response.
C7_LookupReturnsOwnRecord ==
    \A r \in Requests :
        (/\ Done(r) /\ req[r].status = 200
         /\ get.route = "byId"
         /\ get.param = toString(req[r].body.verification_id)) =>
            /\ get.status = 200
            /\ Owned(r) # {}
            /\ get.body.data = verificationHistory[RecordOf(r)]
            /\ get.body.data.id = req[r].body.verification_id
            /\ get.body.data.filename = req[r].body.filename
            /\ get.body.data.fileHash = req[r].body.file_hash
            /\ get.body.data.result = req[r].body.result
            /\ get.body.data.fraudRisk = req[r].body.fraud_risk_percentage
            /\ get.body.data.documentType = req[r].body.document_type
            /\ get.body.data.extractedText = req[r].body.extracted_text
            /\ get.body.data.fraudIssues = req[r].body.fraud_issues

\* Some record of the history carries the id that the string names.
Carried(history, param) ==
    \E i \in 1..Len(history) : toString(history[i].id) = param

\* C8 (as claimed): GET /history/:id for an id that no record carries is
\* answered 404, not with a record and not with 500, and leaves the history
\* as it was.
C8_UnknownIdIsNotFound ==
    [][(get'.route = "byId" /\ ~Carried(verificationHistory, get'.param)) =>
          /\ get'.status = 404
          /\ verificationHistory' = verificationHistory]_vars

\* C9: GET /history answers 200 with the whole history, newest first (a
\* record appended later stands before one appended earlier), and total is
\* the length of data and the number of POST requests that have appended.
C9_HistoryNewestFirst ==
    get.route = "history" =>
        /\ get.status = 200 /\ get.body.success
        /\ get.body.data = verificationHistory
        /\ get.body.total = Len(get.body.data)
        /\ get.body.total = Cardinality({r \in Requests : req[r].appended > 0})
        /\ get.body.total = appends
        /\ \A i, j \in 1..Len(get.body.data) :
              i < j => req[histOwner[i]].appended > req[histOwner[j]].appended

\* C9 witness: GET /history has just answered with two records.
C9_Witness ==
    /\ get.route = "history" /\ get.body.total = 2
    /\ get.body.data[1] # get.body.data[2]

\* Request r is answered in this step.
Answered(r) == req[r].pc # "done" /\ req'[r].pc = "done"

\* C10: the history changes only when a POST is answered 200, and then by
\* one record put in front of the unchanged old history; a step of a GET
\* handler and a step that answers a POST with 400 or 500 leave it as it is.
C10_HistoryOnlyPrepended ==
    [][/\ (verificationHistory' # verificationHistory) =>
             /\ \E r \in Requests : Answered(r) /\ req'[r].status = 200
             /\ Len(verificationHistory') = Len(verificationHistory) + 1
             /\ Tail(verificationHistory') = verificationHistory
       /\ (get' # NoGet) => verificationHistory' = verificationHistory
       /\ \A r \in Requests :
             (Answered(r) /\ req'[r].status \in {400, 500}) =>
                 verificationHistory' = verificationHistory]_vars

\* C10 witness: with a record in the history, one POST was answered 500 and
\* a GET handler has just run.
C10_Witness ==
    /\ Len(verificationHistory) >= 1
    /\ \E r \in Requests : Done(r) /\ req[r].status = 500
    /\ get.route = "byId" /\ get.status = 200

\* Request r has arrived (its handler has run its first step).
Arrived(r) == req[r].pc # "new"

\* C11: a POST /verify request without a file part is answered 400 in the
\* step in which it arrives, and that step has no side effect: the
\* classifier call is never issued for it (no outcome, never at an await),
\* nothing is submitted to the ledger, and the history, the ledger and the
\* append counter are left as they were.
C11_NoFileIs400WithoutSideEffects ==
    [][\A r \in Requests :
          /\ (Arrived(r) /\ ~req[r].hasFile) =>
                /\ Done(r) /\ req[r].status = 400
                /\ req[r].body = [error |-> "No file uploaded"]
                /\ req[r].ai = NoOutcome /\ req[r].ledger = "none"
                /\ req[r].fileHash = -1 /\ req[r].appended = 0
                /\ Owned(r) = {}
          /\ (~Arrived(r) /\ Arrived(r)' /\ ~req'[r].hasFile) =>
                /\ Done(r)' /\ req'[r].status = 400
                /\ UNCHANGED <<verificationHistory, verifiedDocs, histOwner, appends>>]_vars

\* C11 witness: a request without a file part was answered 400 while the
\* history already held a record.
C11_Witness ==
    \E r \in Requests :
        /\ Done(r) /\ ~req[r].hasFile /\ req[r].status = 400
        /\ Len(verificationHistory) = 1

\* The upload is invalid input: no bytes, or no filename.
InvalidUpload(f) == f.buffer = << >> \/ f.originalname = ""

\* C12 (as claimed): a request whose uploaded file is empty or has no
\* filename is answered 400 in the step in which it arrives, with no
\* classifier call, no ledger submission and no record.
C12_InvalidUploadIs400 ==
    \A r \in Requests :
        (Arrived(r) /\ req[r].hasFile /\ InvalidUpload(req[r].file)) =>
            /\ Done(r) /\ req[r].status = 400
            /\ req[r].ai = NoOutcome /\ req[r].ledger = "none"
            /\ Owned(r) = {}

\* C13 (as claimed): the 200 response carries the ledger outcome: two
\* answered requests whose classifier calls succeeded and whose ledger
\* outcomes differ (recorded, already verified, unreachable) have different
\* response bodies.
C13_LedgerOutcomeInResponse ==
    \A q, r \in Requests :
        (/\ Done(q) /\ req[q].status = 200 /\ ClassifierOk(req[q].ai)
         /\ Done(r) /\ req[r].status = 200 /\ ClassifierOk(req[r].ai)
         /\ req[q].ledger # req[r].ledger) =>
            req[q].body # req[r].body

\* C15 (as claimed): an error response does not contain the message of the
\* caught exception: no field of the body of a request answered after its
\* classifier call was rejected equals the rejection's message.
C15_NoRawMessageInErrorBody ==
    \A r \in Requests :
        (Done(r) /\ req[r].status >= 400 /\ req[r].ai.settled = "rejected") =>
            \A k \in DOMAIN req[r].body : req[r].body[k] # req[r].ai.message

\* C14 (as claimed): every request that passed the file check is answered in
\* the end, even when the classifier or the ledger endpoint never answers.
C14_EveryValidatedRequestAnswered ==
    \A r \in Requests : (req[r].hasFile /\ Arrived(r)) ~> Done(r)

\* The classifier call of request r has been issued (axios.post was called).
ClassifierInvoked(r) == req[r].hasFile /\ Arrived(r)
\* The fingerprint of request r has been computed.
Hashed(r) == req[r].fileHash # -1

LedgerAttempted(r) == req[r].pc \in {"submitting", "submitted"} \/ req[r].ledger # "none"

\* C18 (as claimed): the ledger is called only after the classifier call of
\* the request has succeeded; a request whose classifier call failed
\* (rejected, or a body that is no JSON object) never calls the ledger.
C18_LedgerOnlyAfterClassifierSuccess ==
    \A r \in Requests :
        /\ LedgerAttempted(r) => ClassifierOk(req[r].ai)
        /\ ClassifierFailed(req[r].ai) => ~LedgerAttempted(r)

\* C19 (as claimed): no failure of the ledger step leaves it: every request
\* whose classifier call succeeded is answered 200 and has put one record
\* into the history, whatever the RPC URL, private key and contract address.
C19_LedgerStepNeverThrows ==
    \A r \in Requests :
        (Done(r) /\ ClassifierOk(req[r].ai)) =>
            /\ req[r].status = 200
            /\ Cardinality(Owned(r)) = 1


\* The ledger write of controller request r failed: storeVerificationResult
\* was rejected, or waiting for the transaction failed or timed out.
CtlLedgerWriteFailed(r) ==
    ctl[r].store.settled = "rejected" \/ ctl[r].wait = "failed"

\* C20 (as claimed): on the controller entry point a failed ledger write
\* does not abort the request: the caller is answered with a success status
\* and the classifier's result.
C20_ControllerLedgerFailureStillAnswers ==
    \A r \in Requests :
        (ctl[r].pc = "done" /\ CtlLedgerWriteFailed(r)) =>
            /\ ctl[r].status = 200
            /\ "aiResult" \in DOMAIN ctl[r].body
            /\ ctl[r].body.aiResult = ctl[r].ai.data


\* The health check sent earlier settles in this step.
HealthSettles == http.health = "sent" /\ http'.health = "idle"

\* C16 (as claimed): while the gateway runs on port 5000, a health check is
\* answered with a success status, checkBackendHealth yields true and
\* backendStatus becomes 'connected', so that an upload is let through.
C16_HealthyWhileGatewayRuns ==
    [][(HealthSettles /\ port5000 = "gateway") =>
          /\ Fulfilled(http'.answer)
          /\ checkBackendHealth(http'.answer)
          /\ ui'.backendStatus = "connected"]_vars

\* The hashes the uploads of the corpus have.
Hashes == {keccak256(f.buffer) : f \in Uploads}

\* The verifyDocument(h) calls that succeeded: the requests whose
\* submission of h the contract recorded.
Succeeded(h) == {r \in Requests : req[r].ledger = "recorded" /\ req[r].fileHash = h}

\* The contract call of request r settles in this step.
ContractCallSettles(r) == req[r].pc = "submitting" /\ req'[r].pc = "submitted"

\* C21: isVerified(h) is true exactly when an earlier verifyDocument(h)
\* succeeded; at most one verifyDocument(h) succeeds per h; a call on a
\* verified h is rejected and changes no state; a verified hash stays
\* verified; a call that succeeds on h adds h and changes no other hash.
C21_VerifiedExactlyOnce ==
    [][/\ \A h \in Hashes :
             /\ isVerified(h)' <=> (Succeeded(h)' # {})
             /\ Cardinality(Succeeded(h)') <= 1
             /\ isVerified(h) => isVerified(h)'
       /\ \A r \in Requests :
             ContractCallSettles(r) =>
                 LET h == req[r].fileHash
                 IN  /\ (isVerified(h) /\ req'[r].ledger # "unreachable") =>
                            /\ req'[r].ledger = "already verified"
                            /\ verifiedDocs' = verifiedDocs
                     /\ req'[r].ledger = "recorded" =>
                            /\ ~isVerified(h)
                            /\ verifiedDocs' = verifiedDocs \cup {h}
                     /\ req'[r].ledger # "recorded" => verifiedDocs' = verifiedDocs]_vars

\* C21 witness: one request's hash was recorded, a second request with the
\* same hash was rejected as already verified, and another hash of the
\* corpus is still unverified.
C21_Witness ==
    \E q, r \in Requests :
        /\ q # r /\ req[q].fileHash = req[r].fileHash
        /\ req[q].ledger = "recorded" /\ req[r].ledger = "already verified"
        /\ isVerified(req[q].fileHash)
        /\ \E h \in Hashes : ~isVerified(h)

\* C22: a POST request is answered at most once (an answered request's
\* status and body never change again), with 200, 400 or 500; it is
\* answered 200 exactly when it has put exactly one record into the history,
\* a request answered 400 or 500 and a request not yet answered have put
\* none; and the verification_id and file_hash of a 200 response are the id
\* and fileHash of the record that request put there.
C22_StatusAgreesWithAppend ==
    [][\A r \in Requests :
          /\ Done(r) => req'[r] = req[r]
          /\ ~Done(r)' => Owned(r)' = {}
          /\ Done(r)' =>
                /\ req'[r].status \in {200, 400, 500}
                /\ Cardinality(Owned(r)') <= 1
                /\ (req'[r].status = 200) <=> (Cardinality(Owned(r)') = 1)
                /\ req'[r].status \in {400, 500} => Owned(r)' = {}
                /\ req'[r].status = 200 =>
                      /\ req'[r].body.verification_id =
                            verificationHistory'[RecordOf(r)'].id
                      /\ req'[r].body.file_hash =
                            verificationHistory'[RecordOf(r)'].fileHash]_vars

\* C22 witness: one request was answered 200 after a failed ledger call and
\* has its record, another was answered 500 and has none, and the history
\* holds exactly the one record.
C22_Witness ==
    \E q, r \in Requests :
        /\ Done(q) /\ req[q].status = 200 /\ LedgerFailed(q) /\ Cardinality(Owned(q)) = 1
        /\ Done(r) /\ req[r].status = 500 /\ Owned(r) = {}
        /\ Len(verificationHistory) = 1

\* An upload of the client settles in this step.
UploadSettles == http'.uploads = http.uploads - 1

\* The upload that settles in this step was answered by the router's
\* request r, with 200.
UploadSucceedsWith(r) ==
    /\ UploadSettles /\ Fulfilled(http'.answer)
    /\ port5000 = "gateway" /\ r = http.accounted + 1

\* The client's entry and the server's record (as GET /history shows it)
\* agree on id, filename, fraudRisk, result, documentType, fraudIssues and
\* fileHash.
AgreeOnRecord(entry, rec) ==
    /\ entry.id = recordJson(rec).id
    /\ entry.filename = recordJson(rec).filename
    /\ entry.fraudRisk = recordJson(rec).fraudRisk
    /\ entry.result = recordJson(rec).result
    /\ entry.documentType = recordJson(rec).documentType
    /\ entry.fraudIssues = recordJson(rec).fraudIssues
    /\ entry.fileHash = recordJson(rec).fileHash

\* For every upload of the corpus, every body the classifier call can be
\* fulfilled with that the handler gets through, and every pair of times:
\* the entry addVerificationToHistory makes of the 200 body agrees with the
\* record the handler stored.
AgreeOnEveryOutput ==
    \A file \in Uploads, out \in AxiosOutcomes, now \in 1..MaxClock, later \in 1..MaxClock :
        (out.settled = "fulfilled" /\ Destructurable(out.data)) =>
            LET fileHash == keccak256(file.buffer)
                rec == verificationRecord(file, out.data, fileHash, now)
                body == okJson(okBody(file, out.data, fileHash, rec))
            IN  AgreeOnRecord(newVerification(body, later), rec)

\* C23: the entry the client puts in front of its history after a successful
\* upload agrees with the record the server stored for that request on id,
\* filename, fraudRisk, result, documentType, fraudIssues and fileHash, for
\* every classifier output (missing fraud_issues, missing doc_type_ml and
\* unrecognised fraud_risk among them).
C23_ClientRecordAgreesWithServer ==
    [][/\ AgreeOnEveryOutput
       /\ \A r \in Requests :
             UploadSucceedsWith(r) =>
                 /\ Cardinality(Owned(r)) = 1
                 /\ Len(ctx'.verificationHistory) = Len(ctx.verificationHistory) + 1
                 /\ AgreeOnRecord(ctx'.verificationHistory[1],
                                  verificationHistory[RecordOf(r)])]_vars

\* C23 witness: the gateway's classifier answered without fraud_issues and
\* doc_type_ml and with an unrecognised fraud_risk, the upload was answered
\* 200, and the client has put its entry in front of its history.
C23_Witness ==
    /\ port5000 = "gateway" /\ http.accounted = 1 /\ Fulfilled(http.answer)
    /\ Done(1) /\ req[1].status = 200 /\ req[1].ai.data = AiReadme
    /\ ctx.verificationHistory # << >>
    /\ ctx.verificationHistory[1].fraudRisk = 50
    /\ ctx.verificationHistory[1].fraudIssues = Arr(<< >>)
    /\ ctx.verificationHistory[1].documentType = Undefined
    /\ ctx.verificationHistory[1].id = Num(verificationHistory[RecordOf(1)].id)

\* C24 (as claimed): the client's verificationHistory never holds two
\* entries with the same id, however upload responses (which prepend) and
\* history-fetch responses (which replace the list) interleave.
C24_NoTwoEntriesWithSameId ==
    \A i, j \in 1..Len(ctx.verificationHistory) :
        i # j => ctx.verificationHistory[i].id # ctx.verificationHistory[j].id

\* The entries of the client's list.
Entries(history) == {history[i] : i \in 1..Len(history)}

\* C25 (as claimed): once the entry of a successful upload has been put into
\* the client's verificationHistory it is there in every later state; no
\* history-fetch response that arrives afterwards removes it.
C25_UploadedRecordStays ==
    \A entry \in http.added : entry \in Entries(ctx.verificationHistory)

\* C26 (as claimed): the context's loading flag is true whenever at least
\* one fetchVerificationHistory call is in flight, overlapping calls
\* included, and false once all calls have settled.
C26_LoadingWhileFetchInFlight == ctx.loading <=> (http.fetches # << >>)

\* A fetchVerificationHistory call is started, is answered, settles in this
\* step.
FetchStarts == Len(http'.fetches) = Len(http.fetches) + 1
FetchAnswered(i) ==
    /\ i \in 1..Len(http.fetches) /\ Len(http'.fetches) = Len(http.fetches)
    /\ http.fetches[i] = Pending /\ http'.fetches[i] # Pending
FetchSettles == Len(http'.fetches) = Len(http.fetches) - 1

\* C27: a fetchVerificationHistory call that fails leaves the client's
\* verificationHistory as it was (the call changes it neither when it is
\* started nor when it settles) and ends with loading false; a call that
\* succeeds replaces the list with the list the server returned, which for
\* the gateway is its array at the time of the answer, and with the empty
\* list when the response carries no data.
C27_FetchFailureKeepsHistory ==
    [][/\ fetchedHistory(Obj([success |-> Bool(TRUE)])) = Arr(<< >>)
       /\ fetchedHistory(Obj([success |-> Bool(TRUE), data |-> Null])) = Arr(<< >>)
       /\ FetchStarts => ctx'.verificationHistory = ctx.verificationHistory
       /\ \A i \in 1..MaxFetches :
             (FetchAnswered(i) /\ port5000 = "gateway") =>
                 /\ Fulfilled(http'.fetches[i])
                 /\ Field(http'.fetches[i].data, "data") =
                        Arr([k \in 1..Len(verificationHistory) |->
                                recordJson(verificationHistory[k])])
       /\ FetchSettles =>
             /\ ~ctx'.loading
             /\ IF Fulfilled(http'.answer)
                THEN LET data == Field(http'.answer.data, "data")
                     IN  IF data = Undefined \/ data = Null
                         THEN ctx'.verificationHistory = << >>
                         ELSE ctx'.verificationHistory = data.v
                ELSE ctx'.verificationHistory = ctx.verificationHistory]_vars

\* C27 witness: a fetch has just settled with the gateway's list of one
\* record, which is now the client's list, and the upload's own response is
\* still on its way.
C27_Witness ==
    /\ Fulfilled(http.answer) /\ Field(http.answer.data, "total") = Num(1)
    /\ Len(verificationHistory) = 1
    /\ ctx.verificationHistory = <<recordJson(verificationHistory[1])>>
    /\ ~ctx.loading /\ http.fetches = << >> /\ http.uploads = 1

\* An upload is sent in this step.
UploadSent == http'.uploads = http.uploads + 1

MsgSelectFile == "Please select a file first!"
MsgNotConnected ==
    "Backend service is not connected. Please check if the API is running on port 5000."

\* handleUpload shows one of its two refusals in this step.
UploadRefused == ui'.alert # ui.alert /\ ui'.alert \in {MsgSelectFile, MsgNotConnected}

\* C28: handleUpload sends an upload only when a file is selected and
\* backendStatus is 'connected' at that moment; when it refuses, one of the
\* two fails, no request is sent and file, result, loading and the
\* verification history are unchanged.
C28_UploadOnlyWhenConnected ==
    [][/\ UploadSent =>
             /\ ui.file # Null /\ ui.backendStatus = "connected"
             /\ http'.uploads = http.uploads + 1
       /\ UploadRefused =>
             /\ ui.file = Null \/ ui.backendStatus # "connected"
             /\ http'.uploads = http.uploads /\ http'.fetches = http.fetches
             /\ http'.health = http.health
             /\ ui'.file = ui.file /\ ui'.result = ui.result
             /\ ui'.loading = ui.loading
             /\ ctx' = ctx
             /\ UNCHANGED gatewayVars]_vars

\* C28 witness: after an upload that went through, the backend has been
\* found gone and a click has been refused: nothing is in flight.
C28_Witness ==
    /\ ui.alert = MsgNotConnected /\ ui.file # Null
    /\ ui.backendStatus = "disconnected"
    /\ http.uploads = 0 /\ ~ui.loading /\ http.added # {}

\* C29: at most one upload of the page is in flight at any time, and
\* loading is true exactly then; no handleUpload sends while loading is
\* true; and the upload that settles makes at most one
\* addVerificationToHistory call and leaves none in flight.
C29_OneUploadInFlight ==
    [][/\ http.uploads \in {0, 1} /\ http'.uploads \in {0, 1}
       /\ ui.loading <=> (http.uploads = 1)
       /\ ui'.loading <=> (http'.uploads = 1)
       /\ UploadSent => ~ui.loading
       /\ UploadSettles =>
             /\ http'.uploads = 0
             /\ Cardinality(http'.added) <= Cardinality(http.added) + 1
             /\ Len(ctx'.verificationHistory) <= Len(ctx.verificationHistory) + 1]_vars

\* C29 witness: an earlier upload has settled and put its entry into the
\* history, and the next one is in flight with the button disabled.
C29_Witness ==
    /\ http.uploads = 1 /\ ui.loading /\ ~UploadButton
    /\ http.added # {} /\ ctx.verificationHistory # << >>

\* C30: when the upload settles, result is set to the response body and
\* addVerificationToHistory is called, once, exactly when the request
\* succeeded; when it failed, result and the verification history are
\* unchanged and backendStatus becomes 'disconnected' exactly for the
\* 'Backend service is not running' error (no error message holds
\* 'connection refused'); loading is false afterwards either way.
C30_ResultIffUploadSucceeded ==
    [][UploadSettles =>
          LET answer == http'.answer
          IN  /\ ~ui'.loading
              /\ IF Fulfilled(answer)
                 THEN /\ ui'.result = answer.data
                      /\ ctx'.verificationHistory =
                            <<newVerification(answer.data, clock)>> \o ctx.verificationHistory
                      /\ http'.added = http.added \cup {newVerification(answer.data, clock)}
                      /\ ui'.backendStatus = ui.backendStatus
                 ELSE /\ ui'.result = ui.result
                      /\ ctx'.verificationHistory = ctx.verificationHistory
                      /\ http'.added = http.added
                      /\ IF interceptor(answer) = MsgNotRunning
                         THEN ui'.backendStatus = "disconnected"
                         ELSE ui'.backendStatus = ui.backendStatus]_vars

\* C30 witness: an upload succeeded earlier and its entry is in the history;
\* the next one was refused by the port, the page shows the 'not running'
\* alert, counts the backend as gone, and is not loading.
C30_Witness ==
    /\ http.answer = NoResponseError("ECONNREFUSED")
    /\ ui.alert = MsgNotRunning /\ ui.backendStatus = "disconnected"
    /\ ~ui.loading /\ http.uploads = 0
    /\ http.added # {} /\ ctx.verificationHistory # << >> /\ ui.result # Null


====
